---- MODULE Spec2Model ----
(***************************************************************************)
(* Model of the gnosis-query service (src/app.py): the search pipeline of  *)
(* SearchResource.get and the two auxiliary reads ContentResource.get and  *)
(* ChunkResource.get, over a Content Catalog (tables content and           *)
(* content_chunk) and a remote Similarity Scorer.                          *)
(*                                                                         *)
(* Encodings.  A query-string argument is a record [present, val]: absent  *)
(* arguments are what request.args.get returns as None.  SQL NULL in the   *)
(* integer column embedding_id is NULL; stored embedding ids are positive. *)
(* A document's file_name is represented by the id of the document that    *)
(* carries it, a chunk's text by the chunk id.                             *)
(***************************************************************************)
EXTENDS Integers, Sequences, FiniteSets, TLC

\* ---------------------------------------------------------------- bounds
MaxUsers == 2
MaxDocs == 2
MaxChunks == 2
MaxEmb == 2
MaxResp == 2
MaxScore == 2
MaxLimit == 1

\* ------------------------------------------------------ program constants
DefaultLimit == 5
NULL == 0
NoContentMessage == "No content found for this user"
NoEmbeddingsMessage == "No embeddings found for this user's content"
SuccessMessage == "Search completed successfully"
MissingParamsMessage == "Missing required parameters: user_id and query"
ScorerFailedMessage == "Failed to get similar embeddings"
InternalErrorMessage == "Internal server error"
ContentNotFoundMessage == "Content not found"
ChunkNotFoundMessage == "Chunk not found"

\* ------------------------------------------------------------- the domains
Users == 1..MaxUsers
DocIds == 1..MaxDocs
ChunkIds == 1..MaxChunks
EmbIds == 1..MaxEmb
\* ids the Scorer may answer with: the stored ones and one it was never sent
ScorerIds == 1..(MaxEmb + 1)
Scores == 1..MaxScore

VARIABLES documents, chunks, pc, endpoint, req, path_id, embedding_to_chunk,
          scorer_response, response, scorer_calls, db_queries

vars == <<documents, chunks, pc, endpoint, req, path_id, embedding_to_chunk,
          scorer_response, response, scorer_calls, db_queries>>

\* ------------------------------------------------- query-string arguments
Absent == [present |-> FALSE, val |-> ""]
Arg(s) == [present |-> TRUE, val |-> s]
NoneInt == [present |-> FALSE, val |-> 0]
SomeInt(i) == [present |-> TRUE, val |-> i]

\* the decimal strings the model can put in a query string
IntRange == 0..(MaxDocs + MaxUsers + MaxLimit)
IsIntString(s) == \E i \in IntRange : ToString(i) = s
IntOf(s) == CHOOSE i \in IntRange : ToString(i) = s

\* request.args.get(name, default=d, type=int): the default when the
\* argument is absent or int() rejects it
GetInt(a, d) ==
  IF a.present /\ IsIntString(a.val) THEN SomeInt(IntOf(a.val)) ELSE d

\* Python truthiness of an Optional[str] and of an Optional[int]
Truthy(a) == a.present /\ a.val # ""
TruthyInt(i) == i.present /\ i.val # 0

\* Content.user_id == user_id: an INTEGER column compared with the string
\* bound parameter, which the database casts to a number (0 if not numeric)
SqlInt(s) == IF IsIntString(s) THEN IntOf(s) ELSE 0

\* ------------------------------------------------------------- exceptions
Abort(code, message) == [type |-> "HTTPException", code |-> code, message |-> message]
KeyError == [type |-> "KeyError", code |-> 0, message |-> ""]
StopIteration == [type |-> "StopIteration", code |-> 0, message |-> ""]

\* except Exception as e: ... api.abort(500, "Internal server error").
\* HTTPException derives from Exception, so an abort raised inside the try
\* block is caught here as well and replaced by the generic 500.
ExceptPassHTTP(e) == IF e.type = "HTTPException" THEN e ELSE Abort(500, InternalErrorMessage)
Except(e) == Abort(500, InternalErrorMessage)

\* the response the framework renders for an HTTPException leaving a handler
ErrorResponse(e) == [status |-> e.code, message |-> e.message, results |-> <<>>]
NoResponse == [status |-> 0, message |-> "", results |-> <<>>]

\* ------------------------------------------------------------ the Catalog
\* Step 1: the ids of the user's documents, narrowed to content_id when the
\* parsed content_id is truthy
ContentIdsOverride(user_id, content_id) ==
  {d \in DocIds : IF TruthyInt(content_id) THEN d = content_id.val
                  ELSE documents[d] = SqlInt(user_id.val)}
ContentIds(user_id, content_id) ==
  {d \in DocIds : /\ documents[d] = SqlInt(user_id.val)
                  /\ (TruthyInt(content_id) => d = content_id.val)}

\* Step 2: the chunks of those documents that have an embedding
EmbeddingChunksUnfiltered(content_ids) ==
  {c \in ChunkIds : chunks[c].content_id \in content_ids}
EmbeddingChunks(content_ids) ==
  {c \in ChunkIds : /\ chunks[c].content_id \in content_ids
                    /\ chunks[c].embedding_id # NULL}

\* the orders in which .all() may deliver a set of rows
Orders(S) ==
  {s \in [1..Cardinality(S) -> S] : \A i, j \in DOMAIN s : i # j => s[i] # s[j]}

\* {ec[1]: ec[0] for ec in embedding_chunks}: a later row replaces an
\* earlier one with the same embedding_id
Last(S) == CHOOSE i \in S : \A j \in S : j <= i
First(S) == CHOOSE i \in S : \A j \in S : i <= j
EmbeddingToChunk(rows) ==
  [e \in {chunks[rows[i]].embedding_id : i \in DOMAIN rows} |->
     rows[Last({i \in DOMAIN rows : chunks[rows[i]].embedding_id = e})]]

Init ==
  /\ documents \in [DocIds -> Users]
  /\ chunks \in [ChunkIds -> [content_id : DocIds, embedding_id : {NULL} \cup EmbIds]]
  /\ pc = "idle"
  /\ endpoint = "none"
  /\ req = [user_id |-> Absent, query_text |-> Absent, content_id |-> NoneInt, limit |-> NoneInt]
  /\ path_id = 0
  /\ embedding_to_chunk = << >>
  /\ scorer_response = [status_code |-> 0, similar_embeddings |-> << >>]
  /\ response = NoResponse
  /\ scorer_calls = 0
  /\ db_queries = 0

\* ----------------------------------------------------- SearchResource.get
UserIdArgs == {Absent, Arg("")} \cup {Arg(ToString(u)) : u \in Users}
QueryArgs == {Absent, Arg(""), Arg("q")}
ContentIdArgs == {Absent, Arg("x")} \cup {Arg(ToString(d)) : d \in 0..MaxDocs}
LimitArgs == {Absent} \cup {Arg(ToString(l)) : l \in 1..MaxLimit}

\* if not user_id or not query_text
MissingRequiredUserOnly(user_id, query_text) == ~Truthy(user_id)
MissingRequired(user_id, query_text) == ~Truthy(user_id) \/ ~Truthy(query_text)

\* lines 121-127: read the arguments, reject a request without user_id or
\* query; this abort is outside the try block
SearchRequest(user_id, query_text, content_id, limit) ==
  /\ pc = "idle"
  /\ endpoint' = "search"
  /\ req' = [user_id |-> user_id, query_text |-> query_text,
             content_id |-> GetInt(content_id, NoneInt),
             limit |-> GetInt(limit, SomeInt(DefaultLimit))]
  /\ IF MissingRequired(user_id, query_text)
       THEN /\ response' = ErrorResponse(Abort(400, MissingParamsMessage))
            /\ pc' = "done"
       ELSE /\ response' = response
            /\ pc' = "resolve"
  /\ UNCHANGED <<documents, chunks, path_id, embedding_to_chunk,
                 scorer_response, scorer_calls, db_queries>>

\* lines 130-161: the two Catalog queries, the two empty exits, the index.
\* The rows of the second query arrive in an order the database chooses.
ResolveContent ==
  /\ pc = "resolve"
  /\ LET content_ids == ContentIds(req.user_id, req.content_id) IN
       IF content_ids = {}
         THEN /\ db_queries' = db_queries + 1
              /\ response' = [status |-> 200, message |-> NoContentMessage, results |-> << >>]
              /\ pc' = "done"
              /\ UNCHANGED embedding_to_chunk
         ELSE /\ db_queries' = db_queries + 2
              /\ \E embedding_chunks \in Orders(EmbeddingChunks(content_ids)) :
                   IF embedding_chunks = << >>
                     THEN /\ response' = [status |-> 200, message |-> NoEmbeddingsMessage,
                                          results |-> << >>]
                          /\ pc' = "done"
                          /\ UNCHANGED embedding_to_chunk
                     ELSE /\ embedding_to_chunk' = EmbeddingToChunk(embedding_chunks)
                          /\ pc' = "scorer"
                          /\ UNCHANGED response
  /\ UNCHANGED <<documents, chunks, endpoint, req, path_id, scorer_response, scorer_calls>>

\* lines 163-180: the one POST to the Scorer; a non-200 answer aborts with
\* 500 inside the try block, which the except clause turns into the generic 500
InvokeScorer(status_code, similar_embeddings) ==
  /\ pc = "scorer"
  /\ scorer_calls' = scorer_calls + 1
  /\ status_code # 200 => similar_embeddings = << >>
  /\ scorer_response' = [status_code |-> status_code,
                         similar_embeddings |-> similar_embeddings]
  /\ IF status_code # 200
       THEN /\ response' = ErrorResponse(Except(Abort(500, ScorerFailedMessage)))
            /\ pc' = "done"
       ELSE /\ response' = response
            /\ pc' = "assemble"
  /\ UNCHANGED <<documents, chunks, endpoint, req, path_id, embedding_to_chunk, db_queries>>

\* Step 4: [embedding_to_chunk[emb['id']] for emb in similar_embeddings];
\* a subscript with an unknown id raises KeyError
SimilarChunkIdsSkip(similar_embeddings, index) ==
  LET known == SelectSeq(similar_embeddings, LAMBDA emb : emb.id \in DOMAIN index) IN
    [ok |-> TRUE, ids |-> [i \in DOMAIN known |-> index[known[i].id]]]
SimilarChunkIdsFirstOnly(similar_embeddings, index) ==
  IF \A i \in DOMAIN similar_embeddings : similar_embeddings[i].id \in DOMAIN index
    THEN [ok |-> TRUE,
          ids |-> [i \in DOMAIN similar_embeddings \cap {1} |-> index[similar_embeddings[i].id]]]
    ELSE [ok |-> FALSE, ids |-> << >>]
SimilarChunkIds(similar_embeddings, index) ==
  IF \A i \in DOMAIN similar_embeddings : similar_embeddings[i].id \in DOMAIN index
    THEN [ok |-> TRUE,
          ids |-> [i \in DOMAIN similar_embeddings |-> index[similar_embeddings[i].id]]]
    ELSE [ok |-> FALSE, ids |-> << >>]

\* Step 5: ContentChunk JOIN Content ... WHERE ContentChunk.id IN (ids)
SimilarChunksCrossJoin(similar_chunk_ids) ==
  {[id |-> c, content_id |-> chunks[c].content_id, file_name |-> d] :
     c \in {x \in ChunkIds : \E i \in DOMAIN similar_chunk_ids : similar_chunk_ids[i] = x},
     d \in DocIds}
SimilarChunks(similar_chunk_ids) ==
  {row \in [id : ChunkIds, content_id : DocIds, file_name : DocIds] :
     /\ row.content_id = chunks[row.id].content_id
     /\ row.file_name = row.content_id
     /\ \E i \in DOMAIN similar_chunk_ids : similar_chunk_ids[i] = row.id}

\* next(emb['similarity_score'] for emb in similar_embeddings
\*      if embedding_to_chunk[emb['id']] == chunk.id)
ScoreOf(chunk_id, similar_embeddings, index) ==
  LET stop == {i \in DOMAIN similar_embeddings :
                 \/ similar_embeddings[i].id \notin DOMAIN index
                 \/ index[similar_embeddings[i].id] = chunk_id} IN
    IF stop = {} THEN [ok |-> FALSE, exc |-> StopIteration, score |-> 0]
    ELSE IF similar_embeddings[First(stop)].id \notin DOMAIN index
      THEN [ok |-> FALSE, exc |-> KeyError, score |-> 0]
      ELSE [ok |-> TRUE, exc |-> KeyError,
            score |-> similar_embeddings[First(stop)].similarity_score]

\* results.sort(key=lambda x: x['similarity_score'], reverse=True): stable
RECURSIVE SortAscending(_)
SortAscending(results) ==
  IF results = << >> THEN << >>
  ELSE LET x == results[Len(results)]
           s == SortAscending(SubSeq(results, 1, Len(results) - 1))
           k == Cardinality({i \in DOMAIN s : s[i].similarity_score <= x.similarity_score})
       IN SubSeq(s, 1, k) \o <<x>> \o SubSeq(s, k + 1, Len(s))
RECURSIVE SortByScore(_)
SortByScore(results) ==
  IF results = << >> THEN << >>
  ELSE LET x == results[Len(results)]
           s == SortByScore(SubSeq(results, 1, Len(results) - 1))
           k == Cardinality({i \in DOMAIN s : s[i].similarity_score >= x.similarity_score})
       IN SubSeq(s, 1, k) \o <<x>> \o SubSeq(s, k + 1, Len(s))

\* the list comprehension of lines 202-212 over the fetched rows
FormatResults(similar_chunks, similar_embeddings, index) ==
  LET scores == [i \in DOMAIN similar_chunks |->
                   ScoreOf(similar_chunks[i].id, similar_embeddings, index)]
  IN IF \E i \in DOMAIN scores : ~scores[i].ok
       THEN [ok |-> FALSE,
             exc |-> scores[First({i \in DOMAIN scores : ~scores[i].ok})].exc,
             results |-> << >>]
       ELSE [ok |-> TRUE, exc |-> KeyError,
             results |-> [i \in DOMAIN similar_chunks |->
                            [chunk_id |-> similar_chunks[i].id,
                             content_id |-> similar_chunks[i].content_id,
                             file_name |-> similar_chunks[i].file_name,
                             text |-> similar_chunks[i].id,
                             similarity_score |-> scores[i].score]]]

\* lines 182-224: resolve the candidates, fetch the chunks (in an order the
\* database chooses), attach the scores, sort, answer; any exception becomes
\* the generic 500
Assemble ==
  /\ pc = "assemble"
  /\ pc' = "done"
  /\ LET similar_embeddings == scorer_response.similar_embeddings
         resolved == SimilarChunkIds(similar_embeddings, embedding_to_chunk)
     IN IF ~resolved.ok
          THEN /\ response' = ErrorResponse(Except(KeyError))
               /\ UNCHANGED db_queries
          ELSE /\ db_queries' = db_queries + 1
               /\ \E similar_chunks \in Orders(SimilarChunks(resolved.ids)) :
                    LET formatted == FormatResults(similar_chunks, similar_embeddings,
                                                   embedding_to_chunk)
                    IN IF ~formatted.ok
                         THEN response' = ErrorResponse(Except(formatted.exc))
                         ELSE response' = [status |-> 200, message |-> SuccessMessage,
                                           results |-> SortByScore(formatted.results)]
  /\ UNCHANGED <<documents, chunks, endpoint, req, path_id, embedding_to_chunk,
                 scorer_response, scorer_calls>>

\* ---------------------------------------------------- ContentResource.get
\* lines 230-258: Content.query.get(content_id); the 404 abort is raised
\* inside the try block
ContentGet(content_id) ==
  /\ pc = "idle"
  /\ pc' = "done"
  /\ endpoint' = "content"
  /\ path_id' = content_id
  /\ db_queries' = db_queries + 1
  /\ response' = IF content_id \notin DocIds
                   THEN ErrorResponse(Except(Abort(404, ContentNotFoundMessage)))
                   ELSE [status |-> 200, message |-> "", results |-> << >>]
  /\ UNCHANGED <<documents, chunks, req, embedding_to_chunk, scorer_response, scorer_calls>>

\* ------------------------------------------------------ ChunkResource.get
\* lines 264-278: ContentChunk.query.get(chunk_id); same shape
ChunkGet(chunk_id) ==
  /\ pc = "idle"
  /\ pc' = "done"
  /\ endpoint' = "chunk"
  /\ path_id' = chunk_id
  /\ db_queries' = db_queries + 1
  /\ response' = IF chunk_id \notin ChunkIds
                   THEN ErrorResponse(Except(Abort(404, ChunkNotFoundMessage)))
                   ELSE [status |-> 200, message |-> "", results |-> << >>]
  /\ UNCHANGED <<documents, chunks, req, embedding_to_chunk, scorer_response, scorer_calls>>

\* ------------------------------------------------------- the inputs drawn
StatusCodes == {200, 503}
Candidates == [id : ScorerIds, similarity_score : Scores]
ScorerBodies == UNION {[1..n -> Candidates] : n \in 0..MaxResp}
\* <int:...> path ids: the stored ids, 0 and one id past the last stored
PathIds(n) == 0..(n + 1)

Next ==
  \/ \E u \in UserIdArgs, q \in QueryArgs, c \in ContentIdArgs, l \in LimitArgs :
       SearchRequest(u, q, c, l)
  \/ ResolveContent
  \/ \E code \in StatusCodes, body \in ScorerBodies : InvokeScorer(code, body)
  \/ Assemble
  \/ \E d \in PathIds(MaxDocs) : ContentGet(d)
  \/ \E c \in PathIds(MaxChunks) : ChunkGet(c)

Spec == Init /\ [][Next]_vars

\* ======================================================== the properties
\* the user whose documents a search is scoped to
Owner == SqlInt(req.user_id.val)
ValidRequest ==
  /\ req.user_id.present /\ req.user_id.val # ""
  /\ req.query_text.present /\ req.query_text.val # ""
SearchDone == endpoint = "search" /\ pc = "done"
\* a search that went through the Scorer and answered 200
SearchSuccess == SearchDone /\ scorer_calls = 1 /\ response.status = 200
Similar == scorer_response.similar_embeddings
OwnedDocs == {d \in DocIds : documents[d] = Owner}
MatchingDocs ==
  IF req.content_id.present /\ req.content_id.val # 0
    THEN OwnedDocs \cap {req.content_id.val} ELSE OwnedDocs
HasEmbedded(D) ==
  \E c \in ChunkIds : chunks[c].content_id \in D /\ chunks[c].embedding_id # NULL

\* C1: a search request whose user_id or query is absent or empty is
\* answered 400 at once: no Catalog query and no Scorer call is made.
C1_MissingParameter ==
  (endpoint = "search" /\ ~ValidRequest) =>
     /\ pc = "done"
     /\ response.status = 400
     /\ response.results = << >>
     /\ scorer_calls = 0
     /\ db_queries = 0

C1_Witness ==
  /\ endpoint = "search"
  /\ req.user_id.present /\ req.user_id.val # ""
  /\ ~req.query_text.present
  /\ response.status = 400

C3_ScorerFailure ==
  /\ scorer_calls <= 1
  /\ (endpoint = "search" /\ scorer_calls >= 1 /\ scorer_response.status_code # 200) =>
       /\ pc = "done"
       /\ response.status = 500
       /\ response.message = InternalErrorMessage
       /\ response.message # ScorerFailedMessage
       /\ response.results = << >>

C3_Witness ==
  /\ SearchDone /\ scorer_calls = 1
  /\ scorer_response.status_code = 503
  /\ response.status = 500

\* C4: when content_id is supplied (any integer, 0 included) every result's
\* content_id equals the supplied value.
C4_ContentIdScopes ==
  (SearchDone /\ req.content_id.present /\ response.status = 200) =>
     \A i \in DOMAIN response.results :
        response.results[i].content_id = req.content_id.val

C7_DanglingEmbeddingReference ==
  (/\ SearchDone /\ scorer_calls = 1 /\ scorer_response.status_code = 200
   /\ \E i \in DOMAIN Similar : Similar[i].id \notin DOMAIN embedding_to_chunk) =>
     /\ response.status = 500
     /\ response.message = InternalErrorMessage
     /\ response.results = << >>

C7_Witness ==
  /\ SearchDone /\ scorer_response.status_code = 200
  /\ Len(Similar) = 2
  /\ Similar[1].id \in DOMAIN embedding_to_chunk
  /\ Similar[2].id \notin DOMAIN embedding_to_chunk
  /\ response.status = 500

\* C8: on success results is sorted by similarity_score, non-increasing,
\* and each result's score is a score the Scorer returned for the embedding
\* id the index maps to that result's chunk.
C8_SortedByScore ==
  SearchSuccess =>
     /\ \A i, j \in DOMAIN response.results :
          i < j => response.results[i].similarity_score >= response.results[j].similarity_score
     /\ \A i \in DOMAIN response.results :
          \E k \in DOMAIN Similar :
             /\ Similar[k].id \in DOMAIN embedding_to_chunk
             /\ embedding_to_chunk[Similar[k].id] = response.results[i].chunk_id
             /\ Similar[k].similarity_score = response.results[i].similarity_score

C8_Witness ==
  /\ SearchSuccess
  /\ Len(response.results) = 2
  /\ response.results[1].similarity_score > response.results[2].similarity_score
  /\ Similar[1].similarity_score < Similar[2].similarity_score

\* C9: every result of a search for user_id is a chunk of a document owned
\* by user_id, and a content_id naming a document of another user gives the
\* empty no-content outcome, never a chunk of that document.
C9_OwnerScoped ==
  (SearchDone /\ ValidRequest) =>
     /\ \A i \in DOMAIN response.results :
          /\ response.results[i].chunk_id \in ChunkIds
          /\ response.results[i].content_id = chunks[response.results[i].chunk_id].content_id
          /\ documents[chunks[response.results[i].chunk_id].content_id] = Owner
     /\ (/\ req.content_id.present /\ req.content_id.val \in DocIds
         /\ documents[req.content_id.val] # Owner) =>
          /\ response = [status |-> 200, message |-> NoContentMessage, results |-> << >>]
          /\ scorer_calls = 0

C9_Witness ==
  /\ SearchDone /\ ValidRequest
  /\ req.content_id.present /\ req.content_id.val \in DocIds
  /\ documents[req.content_id.val] # Owner
  /\ HasEmbedded({req.content_id.val})
  /\ HasEmbedded(OwnedDocs)
  /\ response.message = NoContentMessage

\* C10 as stated: on success the output has exactly one result per candidate
\* of the Scorer's response, also when the response repeats an embedding id.
C10_Original ==
  SearchSuccess => Len(response.results) = Len(Similar)

\* C10 amended: on success the output has exactly one result per distinct
\* embedding id of the Scorer's response (one per candidate when no id is
\* repeated), also when two chunks share one embedding_id.
C10_Amended ==
  SearchSuccess =>
     Len(response.results) = Cardinality({Similar[i].id : i \in DOMAIN Similar})

C10_Witness ==
  /\ SearchSuccess
  /\ \E c, d \in ChunkIds :
        /\ c # d /\ chunks[c].embedding_id = chunks[d].embedding_id
        /\ chunks[c].embedding_id \in DOMAIN embedding_to_chunk
        /\ chunks[c].content_id \in OwnedDocs /\ chunks[d].content_id \in OwnedDocs
  /\ Len(Similar) = 2 /\ Similar[1].id = Similar[2].id
  /\ Len(response.results) = 1

\* C6: GET content/<id> and GET chunk/<id> answer 404 when no such record
\* exists, not 500.
C6_ResourceNotFound ==
  /\ (endpoint = "content" /\ pc = "done" /\ path_id \notin DocIds) => response.status = 404
  /\ (endpoint = "chunk" /\ pc = "done" /\ path_id \notin ChunkIds) => response.status = 404
====
